---------------------------- MODULE Spec2Model ----------------------------
(***************************************************************************)
(* Model of the audiosprite AssetPack plugin (src/plugin.js): option       *)
(* resolution, the folder transform with its three suspension points, the  *)
(* manifest post-processing and the cache record.                           *)
(*                                                                         *)
(* A JavaScript string is a sequence of one-character strings, so that     *)
(* split, replace, endsWith and the path functions are computed the way    *)
(* the code computes them.  An object is a function from its keys.         *)
(***************************************************************************)
EXTENDS Integers, Sequences, FiniteSets, TLC

\* Longest resources list the encoder returns.
MaxResources == 2

\* The JavaScript value undefined, where a string may stand as well.
Undefined == <<"undefined">>

Last(s) == s[Len(s)]

(***************************************************************************)
(* String primitives                                                       *)
(***************************************************************************)

\* String.prototype.includes for a one-character needle.
Includes(s, c) == \E i \in 1..Len(s) : s[i] = c

\* String.prototype.indexOf, 1-based, 0 when absent.
IndexOf(s, pat) ==
  LET hits == {i \in 1..(Len(s) - Len(pat) + 1) : SubSeq(s, i, i + Len(pat) - 1) = pat}
  IN  IF hits = {} THEN 0 ELSE CHOOSE i \in hits : \A j \in hits : i <= j

\* String.prototype.split for a one-character separator.
RECURSIVE Split(_, _)
Split(s, c) ==
  LET i == IndexOf(s, <<c>>)
  IN  IF i = 0 THEN <<s>>
      ELSE <<SubSeq(s, 1, i - 1)>> \o Split(SubSeq(s, i + 1, Len(s)), c)

\* Array.prototype.join.
RECURSIVE Join(_, _)
Join(parts, sep) ==
  IF Len(parts) = 0 THEN <<>>
  ELSE IF Len(parts) = 1 THEN parts[1]
  ELSE parts[1] \o sep \o Join(Tail(parts), sep)

\* String.prototype.replace with a string pattern: the FIRST occurrence only.
Replace(s, pat, rep) ==
  LET i == IndexOf(s, pat)
  IN  IF i = 0 THEN s
      ELSE SubSeq(s, 1, i - 1) \o rep \o SubSeq(s, i + Len(pat), Len(s))

\* String.prototype.endsWith.
EndsWith(s, suffix) ==
  /\ Len(suffix) <= Len(s)
  /\ SubSeq(s, Len(s) - Len(suffix) + 1, Len(s)) = suffix

(***************************************************************************)
(* path.join, path.dirname, path.basename (POSIX semantics)                *)
(***************************************************************************)

Dot == <<".">>
DotDot == <<".", ".">>
Slash == <<"/">>

RECURSIVE NormSegs(_, _, _)
NormSegs(segs, abs, stack) ==
  IF Len(segs) = 0 THEN stack
  ELSE LET s == Head(segs)
           rest == Tail(segs)
       IN  IF s = <<>> \/ s = Dot THEN NormSegs(rest, abs, stack)
           ELSE IF s = DotDot
             THEN IF Len(stack) > 0 /\ Last(stack) # DotDot
                    THEN NormSegs(rest, abs, SubSeq(stack, 1, Len(stack) - 1))
                  ELSE IF abs THEN NormSegs(rest, abs, stack)
                  ELSE NormSegs(rest, abs, Append(stack, s))
           ELSE NormSegs(rest, abs, Append(stack, s))

PathNormalize(p) ==
  IF Len(p) = 0 THEN Dot
  ELSE LET abs == p[1] = "/"
           trailing == Last(p) = "/"
           body == Join(NormSegs(Split(p, "/"), abs, <<>>), Slash)
           body1 == IF Len(body) = 0 /\ ~abs THEN Dot ELSE body
           body2 == IF Len(body1) > 0 /\ trailing THEN body1 \o Slash ELSE body1
       IN  IF abs THEN Slash \o body2 ELSE body2

PathJoin(a, b) ==
  LET joined == IF Len(a) = 0 THEN b
                ELSE IF Len(b) = 0 THEN a
                ELSE a \o Slash \o b
  IN  PathNormalize(joined)

RECURSIVE StripTrailingSlashes(_)
StripTrailingSlashes(p) ==
  IF Len(p) > 1 /\ Last(p) = "/" THEN StripTrailingSlashes(SubSeq(p, 1, Len(p) - 1))
  ELSE p

PathBasename(p) ==
  LET q == StripTrailingSlashes(p)
  IN  IF q = Slash THEN <<>> ELSE Last(Split(q, "/"))

PathDirname(p) ==
  LET q == StripTrailingSlashes(p)
      segs == Split(q, "/")
      n == Len(q) - Len(Last(segs))
  IN  IF Len(p) = 0 \/ ~Includes(q, "/") THEN Dot
      ELSE IF q = Slash THEN Slash
      ELSE IF StripTrailingSlashes(SubSeq(q, 1, n)) = Slash THEN Slash
      ELSE StripTrailingSlashes(SubSeq(q, 1, n))

(***************************************************************************)
(* Objects                                                                 *)
(***************************************************************************)

\* The object with no own keys; also what spreading undefined contributes.
Empty == <<>>

\* obj?.key with a fallback for an absent key (obj?.key ?? fallback).
Get(obj, key, fallback) == IF key \in DOMAIN obj THEN obj[key] ELSE fallback

\* { ...a, ...b }: every key of b overrides the same key of a.
Spread(a, b) ==
  [k \in DOMAIN a \cup DOMAIN b |-> IF k \in DOMAIN b THEN b[k] ELSE a[k]]

(***************************************************************************)
(* String literals used by the plugin and by the inputs                    *)
(***************************************************************************)

JsonExt == <<".", "j", "s", "o", "n">>
JsonWord == <<"j", "s", "o", "n">>
DataJsonExt == <<".", "d", ".", "j", "s", "o", "n">>
XExt == <<".", "x">>
OggExt == <<".", "o", "g", "g">>
M4aExt == <<".", "m", "4", "a">>

\* The pipeline's entry and output directories.
EntryDir == <<"r">>
OutputDir == <<"w">>

\* Tagged source folders (tree.path).
TreePaths ==
  { EntryDir \o <<"/", "a">>,
    EntryDir \o <<"/", "b">>,
    EntryDir \o <<"/", "c">> \o JsonExt }

\* What glob can resolve to for a folder: no file, or the files found.
GlobResults == { <<>>, <<"cry.wav", "laugh.mp3">> }

\* User transform callbacks: none, one that adds keys, one that throws.
NoCallback == "undefined"

\* Options given to audiosprite(options) when the plugin is created.
OptionsChoices ==
  << Empty,
     [nested |-> FALSE, outputJson |-> [extension |-> DataJsonExt]],
     [outputJson |-> [path |-> <<"m">>, transform |-> "annotate"],
      audiosprite |-> [output |-> <<"z">>, export |-> "ogg"]],
     [outputJson |-> [minify |-> TRUE, transform |-> "throws"],
      audiosprite |-> [path |-> <<"p">>, bitrate |-> 64]],
     [outputJson |-> [extension |-> XExt]] >>

\* Options the pipeline passes to one transform call (opts).
OptsChoices ==
  << Empty,
     [audiosprite |-> [output |-> <<"q">>]],
     [nested |-> FALSE, outputJson |-> [extension |-> XExt]],
     [nested |-> TRUE, outputJson |-> [transform |-> "annotate"]] >>

(***************************************************************************)
(* Host pipeline collaborators                                             *)
(***************************************************************************)

\* processor.inputToOutput: the entry directory becomes the output directory.
InputToOutput(p) == OutputDir \o SubSeq(p, Len(EntryDir) + 1, Len(p))

\* processor.trimOutputPath: the output directory and a leading '/' are cut.
TrimOutputPath(out) ==
  LET res == Replace(out, OutputDir, <<>>)
  IN  IF Len(res) > 0 /\ res[1] = "/" THEN Tail(res) ELSE res

(***************************************************************************)
(* audiosprite(options): the defaults closed over by the plugin            *)
(***************************************************************************)

DefaultOptions(options) ==
  [ nested |-> Get(options, "nested", TRUE),
    outputJson |->
      Spread([ path |-> Undefined,
               extension |-> JsonExt,
               minify |-> FALSE,
               transform |-> NoCallback ],
             Get(options, "outputJson", Empty)),
    audiosprite |->
      Spread([ output |-> Undefined,
               path |-> <<>>,
               export |-> "ogg,m4a,mp3,ac3",
               format |-> "jukebox",
               autoplay |-> "null",
               loop |-> <<>>,
               silence |-> 0,
               gap |-> 1,
               minlength |-> 0,
               bitrate |-> 128,
               vbr |-> -1,
               samplerate |-> 44100,
               channels |-> 1,
               rawparts |-> <<>>,
               ignorerounding |-> 0 ] @@ ("vbr:vorbis" :> -1),
             Get(options, "audiosprite", Empty)) ]

(***************************************************************************)
(* transform: option resolution                                            *)
(***************************************************************************)

\* opts.nested ?? defaultOptions.nested
Nested(defaults, o) == Get(o, "nested", defaults.nested)

\* The spreads are swapped: the defaults override the call's keys.
JsonOptsMut(defaults, o) == Spread(Get(o, "outputJson", Empty), defaults.outputJson)

\* { ...defaultOptions.outputJson, ...opts.outputJson }
JsonOpts(defaults, o) == Spread(defaults.outputJson, Get(o, "outputJson", Empty))

\* nested ? path.join(outputPath, path.basename(outputPath)) : outputPath
DerivedOutput(isNested, outPath) ==
  IF isNested THEN PathJoin(outPath, PathBasename(outPath)) ELSE outPath

\* The derived output is spread last and overrides the call's own.
AudiospriteOptsMut(defaults, isNested, outPath, o) ==
  Spread(Spread(defaults.audiosprite, Get(o, "audiosprite", Empty)),
         [output |-> DerivedOutput(isNested, outPath)])

\* { ...defaultOptions.audiosprite, output: <derived>, ...opts.audiosprite }
AudiospriteOpts(defaults, isNested, outPath, o) ==
  Spread(Spread(defaults.audiosprite, [output |-> DerivedOutput(isNested, outPath)]),
         Get(o, "audiosprite", Empty))

(***************************************************************************)
(* transform: the paths of what the encoder emitted                        *)
(***************************************************************************)

\* The early return is lost: an empty file list goes on to the encoder.
NoFilesMut(fileList) == FALSE

\* if (files.length === 0) return;
NoFiles(fileList) == Len(fileList) = 0

\* json.resources is there.
HasResources(response) == "resources" \in DOMAIN response

\* The resources check does not see the key: a mistaken check lets all pass.
MissingResourcesMut(response) == FALSE

\* if (!json.resources) throw ...
MissingResources(response) == ~HasResources(response)

MalformedMessage == "Audiosprite emitted malformed JSON. Key 'resources' is required."

\* path.join(audiospriteOpts.path, audiospriteOpts.output + '.json')
JsonFile(aopts) == PathJoin(aopts.path, aopts.output \o JsonExt)

\* json.resources.map(file => file.includes('/') ? path.join(path, file) : file)
AudioFiles(aopts, resources) ==
  [n \in 1..Len(resources) |->
     IF Includes(resources[n], "/") THEN PathJoin(aopts.path, resources[n])
     ELSE resources[n]]

\* [jsonFile, ...audioFiles]
Emitted(aopts, resources) == <<JsonFile(aopts)>> \o AudioFiles(aopts, resources)

(***************************************************************************)
(* The encoder (external): its responses and what it leaves on disk        *)
(***************************************************************************)

\* Resource entries an encoder can report for its output base name:
\* path-qualified, absolute and bare.
ResourceCandidates(aopts) ==
  { aopts.output \o OggExt,
    Slash \o aopts.output \o M4aExt,
    PathBasename(aopts.output) \o OggExt }

\* One resource per exported format: lists without repetition.
ResourceLists(aopts) ==
  { l \in UNION { [1..n -> ResourceCandidates(aopts)] : n \in 0..MaxResources } :
      \A a, b \in 1..Len(l) : a # b => l[a] # l[b] }

\* Files present after the encoder resolved: its own manifest and the audio.
EncoderWrites(aopts, response) ==
  {JsonFile(aopts)} \cup
  (IF ~HasResources(response) THEN {}
   ELSE {AudioFiles(aopts, response.resources)[n] : n \in 1..Len(response.resources)})

(***************************************************************************)
(* processAudiospriteFiles                                                 *)
(***************************************************************************)

\* outputPath.split('.').pop() !== 'json' is false
IsJsonFile(outputPath) == Last(Split(outputPath, ".")) = JsonWord

\* jsonOpts.path ?? path.dirname(outputPath)
OutDir(jopts, outputPath) ==
  IF jopts.path = Undefined THEN PathDirname(outputPath) ELSE jopts.path

\* outputPath.split('/').pop().replace('.json', jsonOpts.extension)
OutName(jopts, outputPath) ==
  Replace(Last(Split(outputPath, "/")), JsonExt, jopts.extension)

\* path.join(outDir, outName)
OutputPathOverride(jopts, outputPath) ==
  PathJoin(OutDir(jopts, outputPath), OutName(jopts, outputPath))

\* The resources keep their paths.
BareNameMut(absPath) == absPath

\* absPath => absPath.split('/').pop()
BareName(absPath) == Last(Split(absPath, "/"))

\* resourcePaths.map(absPath => absPath.split('/').pop())
BareNames(resourcePaths) ==
  [n \in 1..Len(resourcePaths) |-> BareName(resourcePaths[n])]

\* resourcePaths is read after json.resources was reassigned.
CallbackResourcePathsMut(before, after) == after

\* const resourcePaths = json.resources, read before the rewrite: the third
\* argument handed to jsonOpts.transform.
CallbackResourcePaths(before, after) == before

\* What a user callback returns ("annotate" adds two keys to the manifest).
CallbackReturn(cb, doc, jsonPath, resourcePaths) ==
  Spread(doc, [jsonPath |-> jsonPath, sources |-> resourcePaths])

\* The manifest that goes on to JSON.stringify.
ManifestToWrite(hasCallback, rewritten, returned) ==
  IF hasCallback THEN returned ELSE rewritten

\* JSON.stringify(json, null, jsonOpts.minify ? undefined : 2)
Stringify(doc, minify) == [doc |-> doc, space |-> IF minify THEN 0 ELSE 2]

\* One pass of the loop body for a '.json' path.
ManifestStep(outputPath, jopts, saveThrows, acc) ==
  LET override == OutputPathOverride(jopts, outputPath)
      hasCallback == jopts.transform # NoCallback
  IN  IF "resources" \notin DOMAIN acc.json
        THEN [acc EXCEPT !.threw = "TypeError"]
      ELSE
        LET resourcePaths == acc.json.resources
            rewritten == [acc.json EXCEPT !.resources = BareNames(resourcePaths)]
            thirdArg == CallbackResourcePaths(resourcePaths, rewritten.resources)
            call == [op |-> "transform", json |-> rewritten,
                     jsonPath |-> override, resourcePaths |-> thirdArg]
            calls1 == IF hasCallback THEN Append(acc.calls, call) ELSE acc.calls
        IN  IF jopts.transform = "throws"
              THEN [acc EXCEPT !.json = rewritten, !.calls = calls1,
                               !.threw = "TransformCallbackError"]
            ELSE
              LET doc == ManifestToWrite(hasCallback, rewritten,
                           CallbackReturn(jopts.transform, rewritten, override, thirdArg))
                  save == [op |-> "saveToOutput", outputPathOverride |-> override,
                           outputData |-> Stringify(doc, jopts.minify)]
              IN  IF saveThrows
                    THEN [acc EXCEPT !.json = doc, !.calls = Append(calls1, save),
                                     !.threw = "WriteError"]
                  ELSE [acc EXCEPT !.json = doc, !.calls = Append(calls1, save),
                                   !.outs = Append(@, override)]

RECURSIVE ProcessFrom(_, _, _, _, _)
ProcessFrom(fileList, k, jopts, saveThrows, acc) ==
  IF k > Len(fileList) \/ acc.threw # "none" THEN acc
  ELSE IF ~IsJsonFile(fileList[k])
    THEN ProcessFrom(fileList, k + 1, jopts, saveThrows,
                     [acc EXCEPT !.outs = Append(@, fileList[k])])
  ELSE ProcessFrom(fileList, k + 1, jopts, saveThrows,
                   ManifestStep(fileList[k], jopts, saveThrows, acc))

ProcessAudiospriteFiles(fileList, doc, jopts, saveThrows) ==
  ProcessFrom(fileList, 1, jopts, saveThrows,
              [json |-> doc, outs |-> <<>>, calls |-> <<>>, threw |-> "none"])

(***************************************************************************)
(* transform: tree registration and the cache record                       *)
(***************************************************************************)

\* out.endsWith(jsonOpts.extension)
IsManifestOut(out, jopts) == EndsWith(out, jopts.extension)

\* The cacheMap after the loop, as its entries in insertion order.
RECURSIVE CacheMapFrom(_, _, _, _)
CacheMapFrom(outList, k, jopts, map) ==
  IF k > Len(outList) THEN map
  ELSE LET out == outList[k]
           seen == \E n \in 1..Len(map) : map[n].key = out
           map1 == IF seen THEN map
                   ELSE Append(map, [key |-> out, paths |-> <<>>,
                                     name |-> TrimOutputPath(out)])
           map2 == [n \in 1..Len(map1) |->
                      IF map1[n].key = out
                        THEN [map1[n] EXCEPT !.paths = Append(@, TrimOutputPath(out))]
                      ELSE map1[n]]
       IN  IF IsManifestOut(out, jopts)
             THEN CacheMapFrom(outList, k + 1, jopts, map2)
           ELSE CacheMapFrom(outList, k + 1, jopts, map)

\* [...cacheMap.values()]
CacheFiles(outList, jopts) ==
  LET map == CacheMapFrom(outList, 1, jopts, <<>>)
  IN  [n \in 1..Len(map) |-> [paths |-> map[n].paths, name |-> map[n].name]]

\* Every folder is cached under one shared key.
CacheKeyMut(treePath) == EntryDir

\* The key of SavableAssetCache.set.
CacheKey(treePath) == treePath

CacheEntry(treePath, outList, jopts) ==
  [ tree |-> treePath,
    transformData |-> [type |-> "audiosprite", files |-> CacheFiles(outList, jopts)] ]

\* processor.addToTree, once per out, in order.
TreeCalls(outList) ==
  [n \in 1..Len(outList) |->
     [op |-> "addToTree", transformId |-> "audiosprite",
      outputPathOverride |-> outList[n]]]

(***************************************************************************)
(* State                                                                   *)
(***************************************************************************)

VARIABLES
  options,          \* the argument of audiosprite(options)
  defaultOptions,   \* the defaults the plugin closes over
  opts,             \* opts[i]: the options of transform call i
  tree,             \* tree[i]: tree.path of transform call i
  prior,            \* the cache as it was before any call
  pc,               \* pc[i]: where call i stands
  outputPath,       \* processor.inputToOutput(tree.path)
  nested,
  jsonOpts,
  audiospriteOpts,
  files,            \* what glob resolved to
  rawJson,          \* the encoder's response as it arrived
  outs,             \* what processAudiospriteFiles resolved to
  err,              \* the error call i rejected with
  calls,            \* calls[i]: the collaborator calls of call i, in order
  disk,             \* the output file system: path -> content
  treeNodes,        \* the host tree: tree.path -> registered outputs
  cache,            \* SavableAssetCache: key -> entry
  interleaved       \* a call resumed while another call was suspended

vars == << options, defaultOptions, opts, tree, prior, pc, outputPath, nested,
           jsonOpts, audiospriteOpts, files, rawJson, outs, err, calls,
           disk, treeNodes, cache, interleaved >>

\* A value not assigned yet.
NotYet == <<>>

\* rawJson before the encoder answered.
NoResponse == [pending |-> TRUE]

NoEntry == [absent |-> TRUE]

\* cache.get(key), NoEntry when there is none.
Entry(c, key) == IF key \in DOMAIN c THEN c[key] ELSE NoEntry

StaleEntry(treePath) ==
  [ tree |-> treePath,
    transformData |-> [type |-> "audiosprite",
                       files |-> << [paths |-> << <<"o", "l", "d">> >>,
                                     name |-> <<"o", "l", "d">>] >>] ]

\* The file system after writing the given paths with one content.
WriteAll(d, paths, content) ==
  [p \in DOMAIN d \cup paths |-> IF p \in paths THEN content ELSE d[p]]

\* The file system after the saveToOutput calls among cs that did not throw.
RECURSIVE WriteSaves(_, _, _)
WriteSaves(d, cs, threw) ==
  IF Len(cs) = 0 THEN d
  ELSE LET c == Head(cs)
           lastThrew == Len(cs) = 1 /\ threw = "WriteError"
       IN  IF c.op = "saveToOutput" /\ ~lastThrew
             THEN WriteSaves(WriteAll(d, {c.outputPathOverride},
                                      [by |-> "saveToOutput", data |-> c.outputData]),
                             Tail(cs), threw)
           ELSE WriteSaves(d, Tail(cs), threw)

InitFor(I, optionChoices, optsAssignments) ==
  /\ \E n \in optionChoices : options = OptionsChoices[n]
  /\ defaultOptions = DefaultOptions(options)
  /\ \E f \in optsAssignments : opts = [i \in I |-> OptsChoices[f[i]]]
  /\ tree \in {t \in [I -> TreePaths] : \A i, j \in I : i # j => t[i] # t[j]}
  /\ \E stale \in {{}, TreePaths} : prior = [p \in stale |-> StaleEntry(p)]
  /\ cache = prior
  /\ pc = [i \in I |-> "ready"]
  /\ outputPath = [i \in I |-> NotYet]
  /\ nested = [i \in I |-> FALSE]
  /\ jsonOpts = [i \in I |-> NotYet]
  /\ audiospriteOpts = [i \in I |-> NotYet]
  /\ files = [i \in I |-> NotYet]
  /\ rawJson = [i \in I |-> NoResponse]
  /\ outs = [i \in I |-> NotYet]
  /\ err = [i \in I |-> "none"]
  /\ calls = [i \in I |-> <<>>]
  /\ disk = Empty
  /\ treeNodes = [p \in TreePaths |-> <<>>]
  /\ interleaved = FALSE

\* One transform call, every option combination.
Init == InitFor({1}, 1..Len(OptionsChoices), [{1} -> 1..Len(OptsChoices)])

(***************************************************************************)
(* transform, one action per stretch between two suspension points         *)
(***************************************************************************)

\* Call i is suspended at one of its awaits.
Suspended(i) == pc[i] \in {"glob", "encode", "processed"}

\* Call i resumes from an await: note whether another call is suspended.
Resume(i) ==
  interleaved' = (interleaved \/ \E j \in DOMAIN pc : j # i /\ Suspended(j))

\* Entry up to `await glob(globPath)`.
TransformStart(i) ==
  /\ pc[i] = "ready"
  /\ LET out == InputToOutput(tree[i])
         isNested == Nested(defaultOptions, opts[i])
     IN  /\ outputPath' = [outputPath EXCEPT ![i] = out]
         /\ nested' = [nested EXCEPT ![i] = isNested]
         /\ jsonOpts' = [jsonOpts EXCEPT ![i] = JsonOpts(defaultOptions, opts[i])]
         /\ audiospriteOpts' = [audiospriteOpts EXCEPT ![i] =
              AudiospriteOpts(defaultOptions, isNested, out, opts[i])]
  /\ pc' = [pc EXCEPT ![i] = "glob"]
  /\ UNCHANGED << options, defaultOptions, opts, tree, prior, files, rawJson,
                  outs, err, calls, disk, treeNodes, cache, interleaved >>

\* glob rejects: the error leaves transform.
GlobRejects(i) ==
  /\ pc[i] = "glob"
  /\ Resume(i)
  /\ pc' = [pc EXCEPT ![i] = "failed"]
  /\ err' = [err EXCEPT ![i] = "GlobError"]
  /\ UNCHANGED << options, defaultOptions, opts, tree, prior, outputPath, nested,
                  jsonOpts, audiospriteOpts, files, rawJson, outs, calls,
                  disk, treeNodes, cache >>

\* glob resolves: return on no file, else up to `await audiospriteAsync(...)`.
GlobResolves(i) ==
  /\ pc[i] = "glob"
  /\ Resume(i)
  /\ \E found \in GlobResults :
       /\ files' = [files EXCEPT ![i] = found]
       /\ IF NoFiles(found)
            THEN /\ pc' = [pc EXCEPT ![i] = "returned"]
                 /\ calls' = calls
            ELSE /\ pc' = [pc EXCEPT ![i] = "encode"]
                 /\ calls' = [calls EXCEPT ![i] =
                      Append(@, [op |-> "audiosprite", files |-> found,
                                 opts |-> audiospriteOpts[i]])]
  /\ UNCHANGED << options, defaultOptions, opts, tree, prior, outputPath, nested,
                  jsonOpts, audiospriteOpts, rawJson, outs, err,
                  disk, treeNodes, cache >>

\* The encoder fails: the rejection leaves transform.
EncodeRejects(i) ==
  /\ pc[i] = "encode"
  /\ Resume(i)
  /\ pc' = [pc EXCEPT ![i] = "failed"]
  /\ err' = [err EXCEPT ![i] = "EncoderError"]
  /\ UNCHANGED << options, defaultOptions, opts, tree, prior, outputPath, nested,
                  jsonOpts, audiospriteOpts, files, rawJson, outs, calls,
                  disk, treeNodes, cache >>

\* The encoder resolves: the resources check, the paths, and the whole of
\* processAudiospriteFiles (it has no suspension point of its own), up to
\* `await processAudiospriteFiles(...)`.
EncodeResolves(i) ==
  /\ pc[i] = "encode"
  /\ Resume(i)
  /\ \E hasResources \in BOOLEAN, saveThrows \in BOOLEAN :
     \E resources \in (IF hasResources THEN ResourceLists(audiospriteOpts[i]) ELSE {<<>>}) :
       LET response == IF hasResources
                         THEN [resources |-> resources, spritemap |-> "spritemap"]
                       ELSE [spritemap |-> "spritemap"]
           onDisk == WriteAll(disk, EncoderWrites(audiospriteOpts[i], response),
                              [by |-> "encoder"])
       IN  /\ rawJson' = [rawJson EXCEPT ![i] = response]
           /\ IF MissingResources(response)
                THEN /\ pc' = [pc EXCEPT ![i] = "failed"]
                     /\ err' = [err EXCEPT ![i] = MalformedMessage]
                     /\ disk' = onDisk
                     /\ UNCHANGED << outs, calls >>
              ELSE IF ~HasResources(response)
                \* json.resources.map on undefined
                THEN /\ pc' = [pc EXCEPT ![i] = "failed"]
                     /\ err' = [err EXCEPT ![i] = "TypeError"]
                     /\ disk' = onDisk
                     /\ UNCHANGED << outs, calls >>
              ELSE
                LET r == ProcessAudiospriteFiles(
                           Emitted(audiospriteOpts[i], response.resources),
                           response, jsonOpts[i], saveThrows)
                IN  /\ calls' = [calls EXCEPT ![i] = @ \o r.calls]
                    /\ disk' = WriteSaves(onDisk, r.calls, r.threw)
                    /\ IF r.threw # "none"
                         THEN /\ pc' = [pc EXCEPT ![i] = "failed"]
                              /\ err' = [err EXCEPT ![i] = r.threw]
                              /\ outs' = outs
                         ELSE /\ pc' = [pc EXCEPT ![i] = "processed"]
                              /\ err' = err
                              /\ outs' = [outs EXCEPT ![i] = r.outs]
  /\ UNCHANGED << options, defaultOptions, opts, tree, prior, outputPath, nested,
                  jsonOpts, audiospriteOpts, files, treeNodes, cache >>

\* After `await processAudiospriteFiles(...)`: the loop over outs and the
\* cache write.
Finish(i) ==
  /\ pc[i] = "processed"
  /\ Resume(i)
  /\ LET registrations == TreeCalls(outs[i])
         key == CacheKey(tree[i])
         entry == CacheEntry(tree[i], outs[i], jsonOpts[i])
     IN  /\ treeNodes' = [treeNodes EXCEPT ![tree[i]] = @ \o registrations]
         /\ cache' = [k \in DOMAIN cache \cup {key} |->
                        IF k = key THEN entry ELSE cache[k]]
         /\ calls' = [calls EXCEPT ![i] =
              (@ \o registrations) \o << [op |-> "SavableAssetCache.set", key |-> key] >>]
  /\ pc' = [pc EXCEPT ![i] = "done"]
  /\ UNCHANGED << options, defaultOptions, opts, tree, prior, outputPath, nested,
                  jsonOpts, audiospriteOpts, files, rawJson, outs, err, disk >>

Next ==
  \/ \E i \in DOMAIN pc : TransformStart(i)
  \/ \E i \in DOMAIN pc : GlobRejects(i)
  \/ \E i \in DOMAIN pc : GlobResolves(i)
  \/ \E i \in DOMAIN pc : EncodeRejects(i)
  \/ \E i \in DOMAIN pc : EncodeResolves(i)
  \/ \E i \in DOMAIN pc : Finish(i)

Spec == Init /\ [][Next]_vars

\* Two transform calls on two distinct folders, running concurrently: with
\* no callback, or with one that throws in call 1 and one that returns in
\* call 2.
InitPair ==
  /\ InitFor({1, 2}, {1, 4}, {<<1, 4>>})
  /\ tree[1] = EntryDir \o <<"/", "a">>

SpecPair == InitPair /\ [][Next]_vars

(***************************************************************************)
(* Vocabulary of the properties                                            *)
(***************************************************************************)

\* glob has resolved for call i.
Globbed(i) == pc[i] \notin {"ready", "glob"} /\ err[i] # "GlobError"

\* The encoder has answered call i.
Answered(i) == "pending" \notin DOMAIN rawJson[i]

\* The calls of call i with the given operation, in order.
CallsOf(i, op) == SelectSeq(calls[i], LAMBDA c : c.op = op)

\* The operations call i performed, in order.
Ops(i) == [n \in 1..Len(calls[i]) |-> calls[i][n].op]

\* name is what follows the last '/' of full (all of full when it has none).
IsTrailingComponent(name, full) ==
  /\ ~Includes(name, "/")
  /\ Len(name) <= Len(full)
  /\ SubSeq(full, Len(full) - Len(name) + 1, Len(full)) = name
  /\ Len(name) < Len(full) => full[Len(full) - Len(name)] = "/"

\* Nothing of call i reached the output, the tree or the cache.
NothingEmitted(i) ==
  /\ CallsOf(i, "saveToOutput") = <<>>
  /\ CallsOf(i, "addToTree") = <<>>
  /\ CallsOf(i, "SavableAssetCache.set") = <<>>
  /\ treeNodes[tree[i]] = <<>>
  /\ Entry(cache, tree[i]) = Entry(prior, tree[i])

(***************************************************************************)
(* C1                                                                      *)
(***************************************************************************)

\* C1: when glob returns zero files the transform returns without error, and
\* in that call the encoder, saveToOutput, addToTree and SavableAssetCache.set
\* are never called; the folder's prior cache entry is left as it was.
C1_EmptyFolderIsNoOp ==
  \A i \in DOMAIN pc :
    (Globbed(i) /\ Len(files[i]) = 0) =>
      /\ pc[i] = "returned"
      /\ err[i] = "none"
      /\ calls[i] = <<>>
      /\ NothingEmitted(i)

C1_Witness ==
  \E i \in DOMAIN pc :
    /\ pc[i] = "returned"
    /\ Len(files[i]) = 0
    /\ Entry(prior, tree[i]) = StaleEntry(tree[i])
    /\ Entry(cache, tree[i]) = StaleEntry(tree[i])

(***************************************************************************)
(* C2                                                                      *)
(***************************************************************************)

\* C2: after a successful transform whose final manifest path differs from
\* the raw manifest path the encoder wrote, the raw manifest file no longer
\* exists and the renamed one does.
C2_RawManifestRemoved ==
  \A i \in DOMAIN pc :
    (pc[i] = "done" /\ outs[i][1] # JsonFile(audiospriteOpts[i])) =>
      /\ JsonFile(audiospriteOpts[i]) \notin DOMAIN disk
      /\ outs[i][1] \in DOMAIN disk

(***************************************************************************)
(* C3                                                                      *)
(***************************************************************************)

\* C3: with no transform callback, the manifest handed to saveToOutput has a
\* resources list as long as the encoder's, in the same order, each entry the
\* trailing filename component of the encoder's entry and free of '/'.
C3_ResourcesAreBareNames ==
  \A i \in DOMAIN pc :
    jsonOpts[i] # NotYet /\ jsonOpts[i].transform = NoCallback =>
      \A n \in 1..Len(CallsOf(i, "saveToOutput")) :
        LET written == CallsOf(i, "saveToOutput")[n].outputData.doc.resources
            raw == rawJson[i].resources
        IN  /\ Len(written) = Len(raw)
            /\ \A k \in 1..Len(raw) :
                 /\ IsTrailingComponent(written[k], raw[k])
                 /\ ~Includes(written[k], "/")

C3_Witness ==
  \E i \in DOMAIN pc :
    /\ pc[i] = "done"
    /\ jsonOpts[i].transform = NoCallback
    /\ Len(CallsOf(i, "saveToOutput")) = 1
    /\ Len(rawJson[i].resources) = 2
    /\ rawJson[i].resources[1][1] = "/"
    /\ ~Includes(rawJson[i].resources[2], "/")

(***************************************************************************)
(* C4                                                                      *)
(***************************************************************************)

\* C4: when the encoder's response has no resources key the transform fails
\* with the malformed-JSON error, and in that call saveToOutput, addToTree
\* and SavableAssetCache.set are never called; the prior cache entry stays.
C4_MissingResourcesFails ==
  \A i \in DOMAIN pc :
    (Answered(i) /\ ~HasResources(rawJson[i])) =>
      /\ pc[i] = "failed"
      /\ err[i] = MalformedMessage
      /\ NothingEmitted(i)
      /\ \A p \in DOMAIN disk : disk[p].by # "saveToOutput"

C4_Witness ==
  \E i \in DOMAIN pc :
    /\ Answered(i)
    /\ ~HasResources(rawJson[i])
    /\ pc[i] = "failed"
    /\ Entry(cache, tree[i]) = StaleEntry(tree[i])

(***************************************************************************)
(* C5                                                                      *)
(***************************************************************************)

\* <outputFolder>/<basename(outputFolder)> when nested, <outputFolder> when not.
ExpectedDerivedOutput(i) ==
  LET folder == InputToOutput(tree[i])
  IN  IF nested[i] THEN folder \o Slash \o Last(Split(folder, "/")) ELSE folder

\* The per-call options carry their own encoder 'output' key.
CallOverridesOutput(i) ==
  "audiosprite" \in DOMAIN opts[i] /\ "output" \in DOMAIN opts[i].audiosprite

C6_CallbackContract ==
  \A i \in DOMAIN pc :
    (pc[i] \in {"processed", "done"} /\ jsonOpts[i].transform # NoCallback) =>
      /\ Len(CallsOf(i, "transform")) = 1
      /\ Len(CallsOf(i, "saveToOutput")) = 1
      /\ LET cb == CallsOf(i, "transform")[1]
             save == CallsOf(i, "saveToOutput")[1]
             raw == rawJson[i].resources
         IN  /\ \E a, b \in 1..Len(calls[i]) :
                  a < b /\ calls[i][a] = cb /\ calls[i][b] = save
             /\ Len(cb.json.resources) = Len(raw)
             /\ \A k \in 1..Len(raw) : IsTrailingComponent(cb.json.resources[k], raw[k])
             /\ cb.jsonPath = save.outputPathOverride
             /\ cb.resourcePaths = raw
             /\ save.outputData.doc =
                  CallbackReturn(jsonOpts[i].transform, cb.json, cb.jsonPath, cb.resourcePaths)
             /\ disk[save.outputPathOverride].data.doc.sources = raw

C6_Witness ==
  \E i \in DOMAIN pc :
    /\ pc[i] = "done"
    /\ jsonOpts[i].transform = "annotate"
    /\ Len(rawJson[i].resources) = 2
    /\ Includes(rawJson[i].resources[1], "/")
    /\ CallsOf(i, "transform")[1].json.resources # rawJson[i].resources

(***************************************************************************)
(* C7                                                                      *)
(***************************************************************************)

\* The raw manifest's base name with its '.json' suffix replaced.
ExpectedManifestName(i) ==
  LET base == Last(Split(JsonFile(audiospriteOpts[i]), "/"))
  IN  SubSeq(base, 1, Len(base) - Len(JsonExt)) \o jsonOpts[i].extension

\* outputJson.path if given, else the raw manifest's own directory.
ExpectedManifestDir(i) ==
  IF jsonOpts[i].path # Undefined THEN jsonOpts[i].path
  ELSE PathDirname(JsonFile(audiospriteOpts[i]))

\* C7: the path given to saveToOutput is <dir>/<name>, dir being
\* outputJson.path if given and else the raw manifest's directory, name being
\* the raw manifest's base name with its '.json' suffix replaced by
\* outputJson.extension; so it always ends in the configured extension.
C7_FinalManifestPath ==
  \A i \in DOMAIN pc :
    \A n \in 1..Len(CallsOf(i, "saveToOutput")) :
      LET final == CallsOf(i, "saveToOutput")[n].outputPathOverride
      IN  /\ final = PathJoin(ExpectedManifestDir(i), ExpectedManifestName(i))
          /\ EndsWith(final, jsonOpts[i].extension)

(***************************************************************************)
(* C8                                                                      *)
(***************************************************************************)

\* The value of key k after merging key by key: the call's, else the
\* creation options', else the built-in default.
MergedValue(i, namespace, k) ==
  LET perCall == Get(opts[i], namespace, Empty)
      atCreation == Get(options, namespace, Empty)
  IN  IF k \in DOMAIN perCall THEN perCall[k]
      ELSE IF k \in DOMAIN atCreation THEN atCreation[k]
      ELSE DefaultOptions(Empty)[namespace][k]

\* The encoder options are merged key by key ('output' apart, see C5).
EncoderOptionsMerged(i) ==
  /\ DOMAIN audiospriteOpts[i] =
       DOMAIN DefaultOptions(Empty).audiosprite
         \cup DOMAIN Get(options, "audiosprite", Empty)
         \cup DOMAIN Get(opts[i], "audiosprite", Empty)
  /\ \A k \in DOMAIN DefaultOptions(Empty).audiosprite \ {"output"} :
       audiospriteOpts[i][k] = MergedValue(i, "audiosprite", k)

\* C8 as stated: a caller-supplied outputJson replaces the default outputJson
\* wholesale (omitted keys do not keep their defaults), while encoder options
\* are merged key by key over the defaults.
C8_OutputJsonReplacedWholesale ==
  \A i \in DOMAIN pc :
    pc[i] # "ready" =>
      /\ ("outputJson" \in DOMAIN options \/ "outputJson" \in DOMAIN opts[i]) =>
           DOMAIN jsonOpts[i] \subseteq
             DOMAIN Get(options, "outputJson", Empty)
               \cup DOMAIN Get(opts[i], "outputJson", Empty)
      /\ EncoderOptionsMerged(i)

\* C8 amended: both namespaces are merged key by key: in outputJson as in
\* the encoder options a caller key overrides and a key the caller omits
\* keeps its default (the encoder's 'output' key apart, which C5 describes).
C8_BothMergedKeyByKey ==
  \A i \in DOMAIN pc :
    pc[i] # "ready" =>
      /\ DOMAIN jsonOpts[i] = {"path", "extension", "minify", "transform"}
      /\ \A k \in DOMAIN jsonOpts[i] : jsonOpts[i][k] = MergedValue(i, "outputJson", k)
      /\ EncoderOptionsMerged(i)

C8_Witness ==
  \E i \in DOMAIN pc :
    /\ pc[i] # "ready"
    /\ "outputJson" \in DOMAIN options
    /\ "outputJson" \in DOMAIN opts[i]
    /\ "extension" \notin DOMAIN options.outputJson
    /\ "minify" \in DOMAIN options.outputJson
    /\ jsonOpts[i].extension = XExt
    /\ jsonOpts[i].minify = TRUE
    /\ jsonOpts[i].path = Undefined
    /\ audiospriteOpts[i].bitrate = 64
    /\ audiospriteOpts[i].channels = 1

(***************************************************************************)
(* C9                                                                      *)
(***************************************************************************)

\* C9: a successful transform encodes, writes the manifest, registers every
\* emitted path (the final manifest path, then each audio path) once under
\* the folder's node and only then sets the cache once under tree.path, with
\* type 'audiosprite' and one files record per manifest path (name and paths
\* the trimmed output path), none for audio.
C9_SuccessfulRunOrderAndCache ==
  \A i \in DOMAIN pc :
    pc[i] = "done" =>
      LET audio == AudioFiles(audiospriteOpts[i], rawJson[i].resources)
          final == CallsOf(i, "saveToOutput")[1].outputPathOverride
          registered == CallsOf(i, "addToTree")
      IN  /\ SelectSeq(Ops(i), LAMBDA op : op # "transform")
                = <<"audiosprite", "saveToOutput">>
                        \o [n \in 1..(1 + Len(audio)) |-> "addToTree"]
                        \o <<"SavableAssetCache.set">>
          /\ [n \in 1..Len(registered) |-> registered[n].outputPathOverride]
               = <<final>> \o audio
          /\ treeNodes[tree[i]] = registered
          /\ Last(calls[i]).key = tree[i]
          /\ cache[tree[i]] =
               [ tree |-> tree[i],
                 transformData |->
                   [ type |-> "audiosprite",
                     files |-> << [ paths |-> <<TrimOutputPath(final)>>,
                                    name |-> TrimOutputPath(final) ] >> ] ]

(***************************************************************************)
(* C10                                                                     *)
(***************************************************************************)

\* What call i does when it runs alone and nothing fails, from its own
\* inputs: its resolved options, then processAudiospriteFiles.
AloneJsonOpts(i) == JsonOpts(DefaultOptions(options), opts[i])

AloneAudiospriteOpts(i) ==
  AudiospriteOpts(DefaultOptions(options), Nested(DefaultOptions(options), opts[i]),
                  InputToOutput(tree[i]), opts[i])

AloneRun(i) ==
  ProcessAudiospriteFiles(
    Emitted(AloneAudiospriteOpts(i), rawJson[i].resources),
    rawJson[i], AloneJsonOpts(i), FALSE)

\* C10: two transforms on distinct folders interleave at their suspension
\* points; under every interleaving a folder's written manifest, registered
\* paths and cache entry are those of its transform run alone, and a folder
\* whose transform has not completed (failed, skipped, or still running)
\* has nothing registered and its prior cache entry, whatever the other did.
C10_FoldersAreIsolated ==
  \A i \in DOMAIN pc :
    /\ pc[i] = "done" =>
         LET alone == AloneRun(i)
             save == SelectSeq(alone.calls, LAMBDA c : c.op = "saveToOutput")[1]
         IN  /\ CallsOf(i, "saveToOutput") = <<save>>
             /\ save.outputPathOverride \in DOMAIN disk
             /\ disk[save.outputPathOverride] =
                  [by |-> "saveToOutput", data |-> save.outputData]
             /\ treeNodes[tree[i]] = TreeCalls(alone.outs)
             /\ Entry(cache, tree[i]) = CacheEntry(tree[i], alone.outs, AloneJsonOpts(i))
    /\ pc[i] # "done" =>
         /\ treeNodes[tree[i]] = <<>>
         /\ Entry(cache, tree[i]) = Entry(prior, tree[i])
    /\ DOMAIN cache \subseteq DOMAIN prior \cup {tree[j] : j \in DOMAIN pc}

C10_Witness ==
  /\ interleaved
  /\ \E i, j \in DOMAIN pc :
       /\ i # j
       /\ pc[i] = "done"
       /\ pc[j] = "failed"
       /\ Len(treeNodes[tree[i]]) = 3
       /\ Entry(cache, tree[j]) = StaleEntry(tree[j])
       /\ Entry(cache, tree[i]) # StaleEntry(tree[i])

=============================================================================
